---- MODULE Spec2Model ----
(***************************************************************************)
(* memegen: render one line of upper-cased, outlined text onto an embedded *)
(* template and write it as PNG to a file or to standard output.           *)
(*                                                                         *)
(* src/main.go holds two complete programs, each with its own main:        *)
(*   lines   1-185, the single-function main              (variant 1)      *)
(*   lines 187-394, main + run, errors returned to main   (variant 2)      *)
(* Both are modelled; the variable `variant` says which one is running.    *)
(* Strings are sequences of one-character strings.  Calls into the image,  *)
(* font and os libraries are steps whose outcome (success, failure, the    *)
(* decoded width, the measured 26.6 width) is chosen by the environment.   *)
(***************************************************************************)
EXTENDS Integers, Sequences, FiniteSets, TLC

VARIABLES
    variant,         \* 1: main of lines 40-172; 2: main/run of lines 226-372
    osArgs,          \* os.Args; osArgs[1] is the program name (Go's os.Args[0])
    pc,              \* position in the program
    memeText,        \* strings.ToUpper(os.Args[1])
    outputFilename,  \* filePath / outputFilename after the suffix check; <<>> = none
    toFile,          \* the destination writer is the created file, not os.Stdout
    handle,          \* the output file handle: "none", "open", "closed"
    created,         \* names of the files os.Create has created (truncated)
    fileData,        \* what has been written to the output file
    stdout,          \* what has been written to standard output
    stderr,          \* what has been written to standard error
    exitCode,        \* the process exit status, meaningful when pc = "exit"
    imageWidth,      \* bounds.Dx() of the decoded template
    textWidth,       \* result of measureString
    startX,
    startY,
    oi,              \* index of the next outline offset
    draws,           \* the DrawString calls made on the canvas, in order
    measured,        \* the strings passed to measureString, in order
    trace            \* the pipeline steps executed, in order, each with its result

vars == << variant, osArgs, pc, memeText, outputFilename, toFile, handle, created,
           fileData, stdout, stderr, exitCode, imageWidth, textWidth, startX,
           startY, oi, draws, measured, trace >>

----------------------------------------------------------------------------
(* Bounds of the model *)

MaxTextLen == 1
MaxImageWidth == 2
MaxTextPx == 4
\* at most this many outline draws fail in one run of variant 1, which goes on
\* after a failed outline draw
MaxOutlineErrors == 1

(* Program constants *)

dpi == 72
fontSize == 144
paddingY == 20
outlineThickness == 2

----------------------------------------------------------------------------
(* Strings *)

\* a lower-case letter and an upper-case letter
TextChars == {"a", "B"}

RECURSIVE SeqsUpTo(_, _)
SeqsUpTo(S, n) ==
    IF n = 0 THEN {<< >>}
    ELSE LET shorter == SeqsUpTo(S, n - 1)
         IN  shorter \cup {Append(s, c) : s \in shorter, c \in S}

Texts == SeqsUpTo(TextChars, MaxTextLen)

ProgName == <<"m">>

DotPng == <<".", "p", "n", "g">>

\* The output arguments tried: no suffix, the suffix in lower, upper and mixed
\* case, the bare suffix, a near miss, the suffix in the middle, and "".
OutNames ==
    { << >>,
      <<"o">>,
      <<"p", "n", "g">>,
      <<".", "p", "n", "g">>,
      <<"o", ".", "p", "n", "g">>,
      <<"o", ".", "P", "N", "G">>,
      <<"o", ".", "p", "N", "g">>,
      <<"o", ".", "p", "n">>,
      <<".", "p", "n", "g", "o">> }

UpperChar(c) ==
    CASE c = "a" -> "A"
      [] c = "o" -> "O"
      [] c = "p" -> "P"
      [] c = "n" -> "N"
      [] c = "g" -> "G"
      [] OTHER -> c

LowerChar(c) ==
    CASE c = "A" -> "a"
      [] c = "B" -> "b"
      [] c = "O" -> "o"
      [] c = "P" -> "p"
      [] c = "N" -> "n"
      [] c = "G" -> "g"
      [] OTHER -> c

ToUpperForgotten(s) == s

\* strings.ToUpper
ToUpper(s) == [k \in 1..Len(s) |-> UpperChar(s[k])]

\* strings.ToLower
ToLower(s) == [k \in 1..Len(s) |-> LowerChar(s[k])]

HasSuffix(s, suffix) ==
    /\ Len(s) >= Len(suffix)
    /\ SubSeq(s, Len(s) - Len(suffix) + 1, Len(s)) = suffix

NeedsPngSuffixSameCase(name) == ~HasSuffix(name, DotPng)

\* if !strings.HasSuffix(strings.ToLower(name), ".png")
NeedsPngSuffix(name) == ~HasSuffix(ToLower(name), DotPng)

\* the file name after the suffix check
PngName(name) == IF NeedsPngSuffix(name) THEN name \o DotPng ELSE name

ArgMissingOnly(args) == Len(args) < 2

\* if len(os.Args) < 2 || os.Args[1] == ""
ArgMissing(args) == Len(args) < 2 \/ args[2] = << >>

----------------------------------------------------------------------------
(* Geometry *)

\* Go's integer division truncates toward zero
TruncDiv(a, b) == IF a >= 0 THEN a \div b ELSE -((-a) \div b)

\* fixed.Int26_6 >> 6
Shr6(x) == x \div 64

\* freetype.Pt: integer pixel coordinates to a fixed.Point26_6
Pt(x, y) == [X |-> x * 64, Y |-> y * 64]

\* startX := (imageWidth - textWidth) / 2, variant 1 (no clamp)
StartX1(w, tw) == TruncDiv(w - tw, 2)

\* startX := (imageWidth - textWidth) / 2; if startX < 0 { startX = 0 }, variant 2
StartX2(w, tw) == IF TruncDiv(w - tw, 2) < 0 THEN 0 ELSE TruncDiv(w - tw, 2)

\* startY := paddingY + int(fontSize*dpi/72.0), variant 1
StartY1 == paddingY + (fontSize * dpi) \div 72

\* c.PointToFixed(x) = fixed.Int26_6(x * dpi * (64.0 / 72.0))
PointToFixed(x) == (x * dpi * 64) \div 72

\* startY := paddingY + int(c.PointToFixed(fontSize)>>6), variant 2
StartY2 == paddingY + Shr6(PointToFixed(fontSize))

offsetsWithCenter ==
    << [X |-> -outlineThickness, Y |-> -outlineThickness],
       [X |-> 0,                 Y |-> -outlineThickness],
       [X |-> outlineThickness,  Y |-> -outlineThickness],
       [X |-> -outlineThickness, Y |-> 0],
       [X |-> 0,                 Y |-> 0],
       [X |-> outlineThickness,  Y |-> 0],
       [X |-> -outlineThickness, Y |-> outlineThickness],
       [X |-> 0,                 Y |-> outlineThickness],
       [X |-> outlineThickness,  Y |-> outlineThickness] >>

offsets ==
    << [X |-> -outlineThickness, Y |-> -outlineThickness],
       [X |-> 0,                 Y |-> -outlineThickness],
       [X |-> outlineThickness,  Y |-> -outlineThickness],
       [X |-> -outlineThickness, Y |-> 0],
       [X |-> outlineThickness,  Y |-> 0],
       [X |-> -outlineThickness, Y |-> outlineThickness],
       [X |-> 0,                 Y |-> outlineThickness],
       [X |-> outlineThickness,  Y |-> outlineThickness] >>

\* the 26.6 widths font.MeasureString may return: whole pixels and 63/64 short
FixedWidths == {p * 64 + f : p \in 0..MaxTextPx, f \in {0, 63}}

\* measureString: widthInPixels := int(widthInFixedPoint >> 6); the error is always nil
measureString(widthInFixedPoint) == Shr6(widthInFixedPoint)

----------------------------------------------------------------------------
(* Errors of png.Encode *)

PipeName == <<"|", "1">>

DevStdout == <<"/dev/stdout">>

\* a write on the destination failed: *os.PathError{Op: "write", Path: ...}
PathError(path) == [kind |-> "PathError", Op |-> "write", Path |-> path]

\* the encoder refused the image: no write was attempted
FormatError == [kind |-> "FormatError", Op |-> "", Path |-> << >>]

\* the errors png.Encode may return for the current destination
EncodeErrors ==
    IF toFile
    THEN {FormatError, PathError(outputFilename)}
    ELSE {FormatError, PathError(DevStdout), PathError(PipeName)}

\* variant 1: pe, ok := err.(*os.PathError); ok && pe.Op == "write" && pe.Path == "|1"
IsBrokenPipe1(err) ==
    err.kind = "PathError" /\ err.Op = "write" /\ err.Path = PipeName

----------------------------------------------------------------------------
(* Shared pieces of the steps *)

Step(name, ok) == [step |-> name, ok |-> ok]

Say(msgs) == stderr' = stderr \o msgs

Exit(code) == pc' = "exit" /\ exitCode' = code

\* c.DrawString(memeText, p) with the source colour src
DrawCall(src, p, ok) == [src |-> src, pt |-> p, s |-> memeText, ok |-> ok]

\* the number of steps that have failed so far
Failures(tr) == Cardinality({k \in DOMAIN tr : ~tr[k].ok})

\* the bytes a failed png.Encode leaves on the destination
WriteOf(err) == IF err.kind = "PathError" THEN {<< >>, <<"png-partial">>} ELSE {<< >>}

AlwaysSuccessMessage(name) == TRUE

\* variant 2: if outputFilename != "" { fmt.Printf("Successfully generated ...") }
SuccessMessage(name) == name # << >>

----------------------------------------------------------------------------
Init ==
    /\ variant \in {1, 2}
    /\ osArgs \in {<<ProgName>>}
                  \cup {<<ProgName, t>> : t \in Texts}
                  \cup {<<ProgName, t, o>> : t \in Texts, o \in OutNames}
    /\ pc = "args"
    /\ memeText = << >>
    /\ outputFilename = << >>
    /\ toFile = FALSE
    /\ handle = "none"
    /\ created = {}
    /\ fileData = << >>
    /\ stdout = << >>
    /\ stderr = << >>
    /\ exitCode = 0
    /\ imageWidth = 0
    /\ textWidth = 0
    /\ startX = 0
    /\ startY = 0
    /\ oi = 1
    /\ draws = << >>
    /\ measured = << >>
    /\ trace = << >>


----------------------------------------------------------------------------
(* Variant 2: main (lines 226-260) and run (lines 264-372) *)

\* run returns err: the deferred outFile.Close() runs, then main prints
\* "Error: ..." to standard error and calls os.Exit(1)
ReturnErr2 ==
    /\ handle' = IF handle = "open" THEN "closed" ELSE handle
    /\ Say(<<"error">>)
    /\ Exit(1)

\* argument handling of main, up to the call of run
Main2_Args ==
    /\ variant = 2
    /\ pc = "args"
    /\ IF ArgMissing(osArgs)
       THEN /\ Say(<<"usage">>)
            /\ Exit(1)
            /\ UNCHANGED <<memeText, outputFilename>>
       ELSE /\ memeText' = ToUpper(osArgs[2])
            /\ IF Len(osArgs) > 2
               THEN /\ outputFilename' = PngName(osArgs[3])
                    /\ stderr' = IF NeedsPngSuffix(osArgs[3])
                                 THEN Append(stderr, "warning")
                                 ELSE stderr
               ELSE UNCHANGED <<outputFilename, stderr>>
            /\ pc' = "create"
            /\ UNCHANGED exitCode
    /\ UNCHANGED <<variant, osArgs, toFile, handle, created, fileData, stdout,
                   imageWidth, textWidth, startX, startY, oi, draws, measured, trace>>

\* 1. Determine Output Destination
Run_Create ==
    /\ variant = 2
    /\ pc = "create"
    /\ \/ /\ outputFilename = << >>
          /\ pc' = "decode"
          /\ UNCHANGED <<toFile, handle, created, fileData, stderr, exitCode, trace>>
       \/ /\ outputFilename # << >>
          /\ created' = created \cup {outputFilename}
          /\ fileData' = << >>
          /\ handle' = "open"
          /\ toFile' = TRUE
          /\ trace' = Append(trace, Step("create", TRUE))
          /\ pc' = "decode"
          /\ UNCHANGED <<stderr, exitCode>>
       \/ /\ outputFilename # << >>
          /\ trace' = Append(trace, Step("create", FALSE))
          /\ ReturnErr2
          /\ UNCHANGED <<toFile, created, fileData>>
    /\ UNCHANGED <<variant, osArgs, memeText, outputFilename, stdout, imageWidth,
                   textWidth, startX, startY, oi, draws, measured>>

\* 2. Load Template Image
Run_Decode ==
    /\ variant = 2
    /\ pc = "decode"
    /\ \/ /\ \E w \in 1..MaxImageWidth : imageWidth' = w
          /\ trace' = Append(trace, Step("decode", TRUE))
          /\ pc' = "font"
          /\ UNCHANGED <<handle, stderr, exitCode>>
       \/ /\ trace' = Append(trace, Step("decode", FALSE))
          /\ ReturnErr2
          /\ UNCHANGED imageWidth
    /\ UNCHANGED <<variant, osArgs, memeText, outputFilename, toFile, created,
                   fileData, stdout, textWidth, startX, startY, oi, draws, measured>>

\* 3. Load Font
Run_Font ==
    /\ variant = 2
    /\ pc = "font"
    /\ \/ /\ trace' = Append(trace, Step("font", TRUE))
          /\ pc' = "measure"
          /\ UNCHANGED <<handle, stderr, exitCode>>
       \/ /\ trace' = Append(trace, Step("font", FALSE))
          /\ ReturnErr2
    /\ UNCHANGED <<variant, osArgs, memeText, outputFilename, toFile, created,
                   fileData, stdout, imageWidth, textWidth, startX, startY, oi,
                   draws, measured>>

\* 4.-6. Canvas, drawing context, text position
Run_Measure ==
    /\ variant = 2
    /\ pc = "measure"
    /\ \E f \in FixedWidths :
          /\ textWidth' = measureString(f)
          /\ startX' = StartX2(imageWidth, measureString(f))
    /\ measured' = Append(measured, memeText)
    /\ startY' = StartY2
    /\ trace' = Append(trace, Step("measure", TRUE))
    /\ oi' = 1
    /\ pc' = "outline"
    /\ UNCHANGED <<variant, osArgs, memeText, outputFilename, toFile, handle,
                   created, fileData, stdout, stderr, exitCode, imageWidth, draws>>

outlineColor == "black"

fillColor == "white"

\* 7. one pass of the loop over offsets
Run_Outline ==
    /\ variant = 2
    /\ pc = "outline"
    /\ LET offsetPt == Pt(startX + offsets[oi].X, startY + offsets[oi].Y)
       IN  \/ /\ draws' = Append(draws, DrawCall(outlineColor, offsetPt, TRUE))
              /\ trace' = Append(trace, Step("outline", TRUE))
              /\ oi' = oi + 1
              /\ pc' = IF oi = Len(offsets) THEN "fill" ELSE "outline"
              /\ UNCHANGED <<handle, stderr, exitCode>>
           \/ /\ draws' = Append(draws, DrawCall(outlineColor, offsetPt, FALSE))
              /\ trace' = Append(trace, Step("outline", FALSE))
              /\ ReturnErr2
              /\ UNCHANGED oi
    /\ UNCHANGED <<variant, osArgs, memeText, outputFilename, toFile, created,
                   fileData, stdout, imageWidth, textWidth, startX, startY, measured>>

\* 7. Draw main text (fill) on top
Run_Fill ==
    /\ variant = 2
    /\ pc = "fill"
    /\ \/ /\ draws' = Append(draws, DrawCall(fillColor, Pt(startX, startY), TRUE))
          /\ trace' = Append(trace, Step("fill", TRUE))
          /\ pc' = "encode"
          /\ UNCHANGED <<handle, stderr, exitCode>>
       \/ /\ draws' = Append(draws, DrawCall(fillColor, Pt(startX, startY), FALSE))
          /\ trace' = Append(trace, Step("fill", FALSE))
          /\ ReturnErr2
    /\ UNCHANGED <<variant, osArgs, memeText, outputFilename, toFile, created,
                   fileData, stdout, imageWidth, textWidth, startX, startY, oi,
                   measured>>

\* 8. Encode and Output PNG, the return of run and the rest of main
Run_Encode ==
    /\ variant = 2
    /\ pc = "encode"
    /\ \/ /\ trace' = Append(trace, Step("encode", TRUE))
          /\ handle' = IF handle = "open" THEN "closed" ELSE handle
          /\ IF toFile
             THEN /\ fileData' = Append(fileData, "png")
                  /\ stdout' = IF SuccessMessage(outputFilename)
                               THEN Append(stdout, "success-message")
                               ELSE stdout
             ELSE /\ stdout' = IF SuccessMessage(outputFilename)
                               THEN stdout \o <<"png", "success-message">>
                               ELSE Append(stdout, "png")
                  /\ UNCHANGED fileData
          /\ Exit(0)
          /\ UNCHANGED stderr
       \/ /\ \E err \in EncodeErrors : \E written \in WriteOf(err) :
                IF toFile
                THEN fileData' = fileData \o written /\ UNCHANGED stdout
                ELSE stdout' = stdout \o written /\ UNCHANGED fileData
          /\ trace' = Append(trace, Step("encode", FALSE))
          /\ ReturnErr2
    /\ UNCHANGED <<variant, osArgs, memeText, outputFilename, toFile, created,
                   imageWidth, textWidth, startX, startY, oi, draws, measured>>


----------------------------------------------------------------------------
(* Variant 1: main (lines 40-172) *)

\* log.Fatalf: the message goes to standard error, then os.Exit(1); deferred
\* calls do not run
Fatalf1 ==
    /\ Say(<<"error">>)
    /\ Exit(1)

\* 1. Argument Handling, up to os.Create
Main1_Args ==
    /\ variant = 1
    /\ pc = "args"
    /\ IF ArgMissing(osArgs)
       THEN /\ Say(<<"usage">>)
            /\ Exit(1)
            /\ UNCHANGED <<memeText, outputFilename>>
       ELSE /\ memeText' = ToUpper(osArgs[2])
            /\ IF Len(osArgs) > 2
               THEN /\ outputFilename' = PngName(osArgs[3])
                    /\ stderr' = IF NeedsPngSuffix(osArgs[3])
                                 THEN Append(stderr, "warning")
                                 ELSE stderr
                    /\ pc' = "create"
               ELSE /\ Say(<<"info">>)
                    /\ pc' = "decode"
                    /\ UNCHANGED outputFilename
            /\ UNCHANGED exitCode
    /\ UNCHANGED <<variant, osArgs, toFile, handle, created, fileData, stdout,
                   imageWidth, textWidth, startX, startY, oi, draws, measured, trace>>

\* outFile, err := os.Create(filePath); defer outFile.Close()
Main1_Create ==
    /\ variant = 1
    /\ pc = "create"
    /\ \/ /\ created' = created \cup {outputFilename}
          /\ fileData' = << >>
          /\ handle' = "open"
          /\ toFile' = TRUE
          /\ trace' = Append(trace, Step("create", TRUE))
          /\ Say(<<"info">>)
          /\ pc' = "decode"
          /\ UNCHANGED exitCode
       \/ /\ trace' = Append(trace, Step("create", FALSE))
          /\ Fatalf1
          /\ UNCHANGED <<toFile, handle, created, fileData>>
    /\ UNCHANGED <<variant, osArgs, memeText, outputFilename, stdout, imageWidth,
                   textWidth, startX, startY, oi, draws, measured>>

\* 2. Load Template Image
Main1_Decode ==
    /\ variant = 1
    /\ pc = "decode"
    /\ \/ /\ \E w \in 1..MaxImageWidth : imageWidth' = w
          /\ trace' = Append(trace, Step("decode", TRUE))
          /\ Say(<<"info">>)
          /\ pc' = "font"
          /\ UNCHANGED exitCode
       \/ /\ trace' = Append(trace, Step("decode", FALSE))
          /\ Fatalf1
          /\ UNCHANGED imageWidth
    /\ UNCHANGED <<variant, osArgs, memeText, outputFilename, toFile, handle,
                   created, fileData, stdout, textWidth, startX, startY, oi, draws,
                   measured>>

\* 3. Load Font
Main1_Font ==
    /\ variant = 1
    /\ pc = "font"
    /\ \/ /\ trace' = Append(trace, Step("font", TRUE))
          /\ Say(<<"info">>)
          /\ pc' = "measure"
          /\ UNCHANGED exitCode
       \/ /\ trace' = Append(trace, Step("font", FALSE))
          /\ Fatalf1
    /\ UNCHANGED <<variant, osArgs, memeText, outputFilename, toFile, handle,
                   created, fileData, stdout, imageWidth, textWidth, startX, startY,
                   oi, draws, measured>>

\* 4.-6. Canvas, drawing context, text position
Main1_Measure ==
    /\ variant = 1
    /\ pc = "measure"
    /\ \E f \in FixedWidths :
          /\ textWidth' = measureString(f)
          /\ startX' = StartX1(imageWidth, measureString(f))
    /\ measured' = Append(measured, memeText)
    /\ startY' = StartY1
    /\ trace' = Append(trace, Step("measure", TRUE))
    /\ Say(<<"info">>)
    /\ oi' = 1
    /\ pc' = "outline"
    /\ UNCHANGED <<variant, osArgs, memeText, outputFilename, toFile, handle,
                   created, fileData, stdout, exitCode, imageWidth, draws>>

\* 7. one pass of the loop over offsets: an error is logged and the loop goes on
Main1_Outline ==
    /\ variant = 1
    /\ pc = "outline"
    /\ LET offsetPt == Pt(startX + offsets[oi].X, startY + offsets[oi].Y)
       IN  \/ /\ draws' = Append(draws, DrawCall(outlineColor, offsetPt, TRUE))
              /\ trace' = Append(trace, Step("outline", TRUE))
              /\ UNCHANGED stderr
           \/ /\ Failures(trace) < MaxOutlineErrors
              /\ draws' = Append(draws, DrawCall(outlineColor, offsetPt, FALSE))
              /\ trace' = Append(trace, Step("outline", FALSE))
              /\ Say(<<"outline-warning">>)
    /\ oi' = oi + 1
    /\ pc' = IF oi = Len(offsets) THEN "fill" ELSE "outline"
    /\ UNCHANGED <<variant, osArgs, memeText, outputFilename, toFile, handle,
                   created, fileData, stdout, exitCode, imageWidth, textWidth,
                   startX, startY, measured>>

\* 7. Draw main text (fill) on top
Main1_Fill ==
    /\ variant = 1
    /\ pc = "fill"
    /\ \/ /\ draws' = Append(draws, DrawCall(fillColor, Pt(startX, startY), TRUE))
          /\ trace' = Append(trace, Step("fill", TRUE))
          /\ Say(<<"info", "info">>)
          /\ pc' = "encode"
          /\ UNCHANGED exitCode
       \/ /\ draws' = Append(draws, DrawCall(fillColor, Pt(startX, startY), FALSE))
          /\ trace' = Append(trace, Step("fill", FALSE))
          /\ Say(<<"info", "error">>)
          /\ Exit(1)
    /\ UNCHANGED <<variant, osArgs, memeText, outputFilename, toFile, handle,
                   created, fileData, stdout, imageWidth, textWidth, startX, startY,
                   oi, measured>>

\* main returns: the deferred outFile.Close() runs and the process exits with 0
Return1 ==
    /\ handle' = IF handle = "open" THEN "closed" ELSE handle
    /\ Exit(0)

\* 8. Encode and Output PNG, to the end of main
Main1_Encode ==
    /\ variant = 1
    /\ pc = "encode"
    /\ \/ /\ trace' = Append(trace, Step("encode", TRUE))
          /\ IF toFile
             THEN /\ fileData' = Append(fileData, "png")
                  /\ Say(<<"success-message">>)
                  /\ UNCHANGED stdout
             ELSE /\ stdout' = Append(stdout, "png")
                  /\ UNCHANGED <<fileData, stderr>>
          /\ Return1
       \/ /\ \E err \in EncodeErrors : \E written \in WriteOf(err) :
                /\ IF toFile
                   THEN fileData' = fileData \o written /\ UNCHANGED stdout
                   ELSE stdout' = stdout \o written /\ UNCHANGED fileData
                /\ IF IsBrokenPipe1(err)
                   THEN /\ stderr' = stderr \o (IF toFile
                                                THEN <<"pipe-warning", "success-message">>
                                                ELSE <<"pipe-warning">>)
                        /\ Return1
                   ELSE /\ Fatalf1
                        /\ UNCHANGED handle
          /\ trace' = Append(trace, Step("encode", FALSE))
    /\ UNCHANGED <<variant, osArgs, memeText, outputFilename, toFile, created,
                   imageWidth, textWidth, startX, startY, oi, draws, measured>>

----------------------------------------------------------------------------
Next ==
    \/ Main1_Args
    \/ Main1_Create
    \/ Main1_Decode
    \/ Main1_Font
    \/ Main1_Measure
    \/ Main1_Outline
    \/ Main1_Fill
    \/ Main1_Encode
    \/ Main2_Args
    \/ Run_Create
    \/ Run_Decode
    \/ Run_Font
    \/ Run_Measure
    \/ Run_Outline
    \/ Run_Fill
    \/ Run_Encode

Spec == Init /\ [][Next]_vars

TypeOK ==
    /\ variant \in {1, 2}
    /\ pc \in {"args", "create", "decode", "font", "measure", "outline", "fill",
               "encode", "exit"}
    /\ handle \in {"none", "open", "closed"}
    /\ exitCode \in {0, 1}
    /\ oi \in 1..(Len(offsets) + 1)


----------------------------------------------------------------------------
(* Vocabulary of the properties *)

Exited == pc = "exit"

NoText == Len(osArgs) < 2 \/ osArgs[2] = << >>

OutGiven == Len(osArgs) > 2

EndsInPng(name) == HasSuffix(ToLower(name), DotPng)

IsUpperOf(s, a) ==
    /\ Len(s) = Len(a)
    /\ \A k \in 1..Len(a) : s[k] = UpperChar(a[k])

PngBytes == {"png", "png-partial"}

HasPng(out) == \E k \in DOMAIN out : out[k] \in PngBytes

StepsOf(tr) == [k \in DOMAIN tr |-> tr[k].step]

AllOk(tr) == \A k \in DOMAIN tr : tr[k].ok

Rendering == <<"decode", "font", "measure", "outline", "outline", "outline",
               "outline", "outline", "outline", "outline", "outline", "fill">>

Pipeline == (IF OutGiven THEN <<"create">> ELSE << >>) \o Rendering \o <<"encode">>

LastFailed == trace # << >> /\ ~trace[Len(trace)].ok

OutlinePoints ==
    {Pt(startX + dx, startY + dy) : dx \in {-2, 0, 2}, dy \in {-2, 0, 2}}
        \ {Pt(startX, startY)}

----------------------------------------------------------------------------
(* C1: with the text argument missing or empty the program only prints the   *)
(* usage message to standard error and exits with code 1: no file is         *)
(* created, no resource is decoded, nothing is written to standard output.   *)
C1_UsageAndNothingElse ==
    NoText =>
        /\ pc \in {"args", "exit"}
        /\ created = {} /\ handle = "none"
        /\ trace = << >> /\ measured = << >> /\ draws = << >>
        /\ stdout = << >>
        /\ Exited => exitCode = 1 /\ stderr = <<"usage">>

C1_Witness == Exited /\ Len(osArgs) >= 2 /\ osArgs[2] = << >> /\ stderr = <<"usage">>

(* C2: exit code 0 only if every pipeline step succeeded; a failed step is   *)
(* the last step executed, is reported on standard error and gives exit      *)
(* code 1.                                                                   *)
C2_FailureStopsTheRun ==
    /\ \A k \in DOMAIN trace : ~trace[k].ok => k = Len(trace)
    /\ Exited /\ exitCode = 0 => StepsOf(trace) = Pipeline /\ AllOk(trace)
    /\ Exited /\ LastFailed =>
           exitCode = 1 /\ \E k \in DOMAIN stderr : stderr[k] = "error"

(* C3: the handle opened for the output file is closed on every exit path:   *)
(* the process never exits with the handle still open.                       *)
C3_ClosedAtExit == Exited => handle # "open"

C5_StartXClamped ==
    measured # << >> =>
        /\ startX >= 0
        /\ textWidth <= imageWidth => startX = (imageWidth - textWidth) \div 2
        /\ textWidth > imageWidth => startX = 0
        /\ \A k \in DOMAIN draws :
               draws[k].src = fillColor => draws[k].pt.X = startX * 64

(* C6: a write failure on standard output during PNG encoding is reported on *)
(* standard error and the process exits with code 1, not 0.                  *)
C6_StdoutWriteFailureExits1 ==
    Exited /\ ~toFile /\ trace # << >> /\ trace[Len(trace)] = Step("encode", FALSE) =>
        /\ exitCode = 1
        /\ \E k \in DOMAIN stderr : stderr[k] = "error"

C8_EightBlackThenWhite ==
    /\ \A k \in DOMAIN draws :
           /\ k <= 8 => draws[k].src = "black" /\ draws[k].pt \in OutlinePoints
           /\ k > 8 => /\ k = 9
                       /\ draws[k].src = "white"
                       /\ draws[k].pt = Pt(startX, startY)
    /\ \A j, k \in DOMAIN draws : j # k => draws[j].pt # draws[k].pt
    /\ Exited /\ exitCode = 0 =>
           /\ Len(draws) = 9
           /\ {draws[k].pt : k \in 1..8} = OutlinePoints

C8_Witness ==
    /\ Exited /\ exitCode = 0
    /\ Len(draws) = 9
    /\ draws[9].src = "white"
    /\ draws[1].pt = Pt(startX - 2, startY - 2)

(* C9: with no output file, standard output carries nothing but the PNG      *)
(* bytes of the canvas: every message goes to standard error or is not       *)
(* printed; with an output file, no PNG byte goes to standard output.        *)
C9_StdoutIsPngOnly ==
    /\ ~OutGiven => \A k \in DOMAIN stdout : stdout[k] \in PngBytes
    /\ ~OutGiven => Len(stdout) <= 1
    /\ OutGiven => ~HasPng(stdout)
    /\ \A k \in DOMAIN stderr : stderr[k] \notin PngBytes

C9_Witness ==
    /\ Exited /\ exitCode = 0
    /\ ~OutGiven
    /\ stdout = <<"png">>
    /\ stderr # << >>

(* C10: no image byte reaches the output target before decode, font parse,   *)
(* measurement, all 8 outline draws and the fill draw have all succeeded;    *)
(* the output file is created before those steps, so a run that fails in     *)
(* one of them leaves an existing, empty output file.                        *)
C10_BytesOnlyAfterRendering ==
    /\ HasPng(stdout) \/ HasPng(fileData) =>
           \E k \in DOMAIN trace :
               /\ StepsOf(SubSeq(trace, k, Len(trace) - 1)) = Rendering
               /\ AllOk(SubSeq(trace, k, Len(trace) - 1))
    /\ toFile /\ pc # "exit" => created = {outputFilename}
    /\ toFile /\ Exited /\ LastFailed /\ trace[Len(trace)].step # "encode" =>
           created = {outputFilename} /\ fileData = << >>

====
